---- MODULE Spec2Model ----
(***************************************************************************)
(* Model of gifti_surface_transformation.py: transform_gifti_between_spaces *)
(* and the script's direct invocation.                                      *)
(*                                                                          *)
(* Coordinates are integers.  One model unit is one step of the double      *)
(* precision arithmetic SimpleITK computes in; the float32 values a GIfTI   *)
(* coordinate array can hold are the multiples of Sub, so the length 1.0 of *)
(* the scenarios is Sub model units.  Python indices 0..N-1 are the TLA+    *)
(* indices 1..N.                                                            *)
(***************************************************************************)
EXTENDS Integers, Sequences, FiniteSets, TLC

VARIABLES fs, pc, in_filename, out_filename, affine_tfm, inv_warp_tfm,
          surf, tfm_aff, tfm_inv_warp, t_new, order, it,
          entry, fs0, loaded, tpArgs, saves, phases

vars == <<fs, pc, in_filename, out_filename, affine_tfm, inv_warp_tfm,
          surf, tfm_aff, tfm_inv_warp, t_new, order, it,
          entry, fs0, loaded, tpArgs, saves, phases>>

\* ---------------------------------------------------------------- bounds
\* double-precision steps per float32 step
Sub == 2
\* largest number of vertices in a mesh's first data array
MaxVerts == 2
\* the displacement field's buffer covers -FieldRadius..FieldRadius per axis
FieldRadius == 1

\* ------------------------------------------------------- the four paths
InGii == "./input/brain_in_space_1.rh.white.surf.gii"
AffMat == "./transforms/tfm_0GenericAffine.mat"
WarpNii == "./transforms/tfm_1InverseWarp.nii.gz"
OutGii == "./output/brain_in_space_2.rh.white.surf.gii"
Paths == {InGii, AffMat, WarpNii, OutGii}

\* ------------------------------------------------------ vectors, matrices
VecAdd(a, b) == <<a[1] + b[1], a[2] + b[2], a[3] + b[3]>>
VecNeg(a) == <<0 - a[1], 0 - a[2], 0 - a[3]>>
MatVec(m, p) == <<m[1][1] * p[1] + m[1][2] * p[2] + m[1][3] * p[3],
                  m[2][1] * p[1] + m[2][2] * p[2] + m[2][3] * p[3],
                  m[3][1] * p[1] + m[3][2] * p[2] + m[3][3] * p[3]>>
MatScale(c, m) == <<<<c * m[1][1], c * m[1][2], c * m[1][3]>>,
                    <<c * m[2][1], c * m[2][2], c * m[2][3]>>,
                    <<c * m[3][1], c * m[3][2], c * m[3][3]>>>>
Det(m) == m[1][1] * (m[2][2] * m[3][3] - m[2][3] * m[3][2])
        - m[1][2] * (m[2][1] * m[3][3] - m[2][3] * m[3][1])
        + m[1][3] * (m[2][1] * m[3][2] - m[2][2] * m[3][1])
Adjugate(m) ==
  <<<<m[2][2] * m[3][3] - m[2][3] * m[3][2],
      m[1][3] * m[3][2] - m[1][2] * m[3][3],
      m[1][2] * m[2][3] - m[1][3] * m[2][2]>>,
    <<m[2][3] * m[3][1] - m[2][1] * m[3][3],
      m[1][1] * m[3][3] - m[1][3] * m[3][1],
      m[1][3] * m[2][1] - m[1][1] * m[2][3]>>,
    <<m[2][1] * m[3][2] - m[2][2] * m[3][1],
      m[1][2] * m[3][1] - m[1][1] * m[3][2],
      m[1][1] * m[2][2] - m[1][2] * m[2][1]>>>>

IdentityMatrix == <<<<1, 0, 0>>, <<0, 1, 0>>, <<0, 0, 1>>>>
\* a quarter turn about the z axis
RotZMatrix == <<<<0, -1, 0>>, <<1, 0, 0>>, <<0, 0, 1>>>>
SingularMatrix == <<<<1, 0, 0>>, <<0, 1, 0>>, <<0, 0, 0>>>>
ZeroVec == <<0, 0, 0>>

\* ------------------------------------------------------------ transforms
NoTransform == [type |-> "none"]
AffineTransform(m, t) == [type |-> "affine", matrix |-> m, translation |-> t]
DisplacementFieldTransform(img) == [type |-> "field", vectors |-> img.voxels]

\* sitk.Transform.GetInverse raises when the transform has no inverse
HasInverseAlways(t) == TRUE
HasInverse(t) == Det(t.matrix) # 0

\* the inverse of p |-> M p + t is p |-> M^-1 p - M^-1 t; the matrices of the
\* model have determinant 1 or -1, so M^-1 = det * adj(M)
GetInverse(t) ==
  LET inv == MatScale(Det(t.matrix), Adjugate(t.matrix))
  IN  AffineTransform(inv, VecNeg(MatVec(inv, t.translation)))

\* one stage applied to one point; a displacement field leaves a point
\* outside its buffer where it is
Apply(t, p) ==
  IF t.type = "affine" THEN VecAdd(MatVec(t.matrix, p), t.translation)
  ELSE IF p \in DOMAIN t.vectors THEN VecAdd(p, t.vectors[p])
  ELSE p

\* sitk.CompositeTransform applies its stages back to front
RECURSIVE ApplyFrontFirst(_, _)
ApplyFrontFirst(ts, p) ==
  IF ts = <<>> THEN p ELSE ApplyFrontFirst(Tail(ts), Apply(Head(ts), p))

RECURSIVE TransformPoint(_, _)
TransformPoint(ts, p) ==
  IF ts = <<>> THEN p
  ELSE TransformPoint(SubSeq(ts, 1, Len(ts) - 1), Apply(ts[Len(ts)], p))

ComposeForward(warp, aff) == <<warp, aff>>
CompositeTransform(warp, aff) == <<warp, GetInverse(aff)>>

\* ------------------------------------------------ float32 array elements
\* a double stored into the float32 array: nearest representable value,
\* ties to the even one
AsFloat32(x) ==
  LET r == x % Sub
      lo == x - r
      hi == lo + Sub
  IN  IF 2 * r < Sub THEN lo
      ELSE IF 2 * r > Sub THEN hi
      ELSE IF (lo \div Sub) % 2 = 0 THEN lo ELSE hi

\* ----------------------------------------------------------- input files
Absent == [kind |-> "absent"]
Garbage == [kind |-> "garbage"]
GiftiFile(arrays) == [kind |-> "gifti", darrays |-> arrays]
TransformFile(t) == [kind |-> "transform", transform |-> t]
ImageFile(px, vox) == [kind |-> "image", pixel |-> px, voxels |-> vox]

\* vertex coordinates a float32 array can hold
Points == {<<0, 0, 0>>, <<Sub, 2 * Sub, 0 - Sub>>}
CoordArrays == UNION {[1..n -> Points] : n \in 0..MaxVerts}
Triangles == <<<<0, 1, 2>>, <<2, 1, 0>>>>
Normals == <<<<0, 0, 1>>>>
ExtraArrays == {<<>>, <<Triangles, Normals>>}
\* meshes whose first data array does not hold 3-component rows, and a mesh
\* without data arrays
BadMeshes == {<<<<<<0, 0>>>>>>, <<<<<<0, 0, 0, 0>>>>, Triangles>>, <<>>}
MeshFiles == {GiftiFile(<<c>> \o e) : c \in CoordArrays, e \in ExtraArrays}
               \cup {GiftiFile(b) : b \in BadMeshes}

IdentityAffine == AffineTransform(IdentityMatrix, ZeroVec)
\* the translation by (1, 2, 3)
Translation123 == AffineTransform(IdentityMatrix, <<Sub, 2 * Sub, 3 * Sub>>)
\* a translation by one double-precision step along x
FineTranslation == AffineTransform(IdentityMatrix, <<1, 0, 0>>)
Rotation == AffineTransform(RotZMatrix, <<0, Sub, 0>>)
SingularAffine == AffineTransform(SingularMatrix, ZeroVec)
AffineFiles == {TransformFile(t) : t \in {IdentityAffine, Translation123,
                  FineTranslation, Rotation, SingularAffine}}

Grid == (0 - FieldRadius..FieldRadius) \X (0 - FieldRadius..FieldRadius)
          \X (0 - FieldRadius..FieldRadius)
ZeroField == [p \in Grid |-> ZeroVec]
\* a displacement that grows along x
ShearField == [p \in Grid |-> <<p[1], 0, 0>>]
\* a scalar image has no displacement vectors
ImageFiles == {ImageFile("vector", ZeroField), ImageFile("vector", ShearField),
               ImageFile("scalar", ZeroField)}

OldOutput == GiftiFile(<<<<<<Sub, Sub, Sub>>>>>>)

FileSystems ==
  {[p \in Paths |-> IF p = InGii THEN m ELSE IF p = AffMat THEN a
                    ELSE IF p = WarpNii THEN w ELSE o] :
     m \in MeshFiles \cup {Absent, Garbage},
     a \in AffineFiles \cup {Absent, Garbage},
     w \in ImageFiles \cup {Absent},
     o \in {Absent, OldOutput}}

\* ------------------------------------------------------------------ state
Init ==
  /\ fs \in FileSystems
  /\ fs0 = fs
  /\ pc = "idle"
  /\ in_filename = "" /\ out_filename = ""
  /\ affine_tfm = "" /\ inv_warp_tfm = ""
  /\ surf = <<>> /\ loaded = <<>>
  /\ tfm_aff = NoTransform /\ tfm_inv_warp = NoTransform
  /\ t_new = <<>>
  /\ order = <<>> /\ it = 0
  /\ entry = "none"
  /\ tpArgs = <<>> /\ saves = 0 /\ phases = <<>>

\* the call binds its positional arguments to the parameters in order
Bind(a1, a2, a3, a4, from) ==
  /\ pc = "idle"
  /\ in_filename' = a1 /\ out_filename' = a2
  /\ affine_tfm' = a3 /\ inv_warp_tfm' = a4
  /\ entry' = from
  /\ pc' = "l36"
  /\ UNCHANGED <<fs, fs0, surf, loaded, tfm_aff, tfm_inv_warp, t_new,
                 order, it, tpArgs, saves, phases>>

\* a caller passes each input by its role and any path as the one to write
Call == \E a2 \in Paths : Bind(InGii, a2, AffMat, WarpNii, "call")

\* the script's direct invocation
Main == Bind(InGii, AffMat, WarpNii, OutGii, "main")

Raise ==
  /\ pc' = "raised"
  /\ UNCHANGED <<fs, fs0, in_filename, out_filename, affine_tfm, inv_warp_tfm,
                 surf, loaded, tfm_aff, tfm_inv_warp, t_new, order, it,
                 entry, tpArgs, saves>>

\* surf = nib.load(in_filename)
LoadMesh ==
  /\ pc = "l36"
  /\ phases' = Append(phases, "Load")
  /\ IF fs[in_filename].kind = "gifti"
     THEN /\ surf' = fs[in_filename].darrays
          /\ loaded' = fs[in_filename].darrays
          /\ pc' = "l39"
          /\ UNCHANGED <<fs, fs0, in_filename, out_filename, affine_tfm,
                         inv_warp_tfm, tfm_aff, tfm_inv_warp, t_new, order, it,
                         entry, tpArgs, saves>>
     ELSE Raise

\* tfm_aff = sitk.ReadTransform(affine_tfm)
ReadTransform ==
  /\ pc = "l39"
  /\ phases' = Append(phases, "Compose")
  /\ IF fs[affine_tfm].kind = "transform"
     THEN /\ tfm_aff' = fs[affine_tfm].transform
          /\ pc' = "l40"
          /\ UNCHANGED <<fs, fs0, in_filename, out_filename, affine_tfm,
                         inv_warp_tfm, surf, loaded, tfm_inv_warp, t_new,
                         order, it, entry, tpArgs, saves>>
     ELSE Raise

\* tfm_inv_warp = sitk.DisplacementFieldTransform(sitk.ReadImage(inv_warp_tfm))
ReadImage ==
  /\ pc = "l40"
  /\ IF fs[inv_warp_tfm].kind = "image" /\ fs[inv_warp_tfm].pixel = "vector"
     THEN /\ tfm_inv_warp' = DisplacementFieldTransform(fs[inv_warp_tfm])
          /\ pc' = "l43"
          /\ UNCHANGED <<fs, fs0, in_filename, out_filename, affine_tfm,
                         inv_warp_tfm, surf, loaded, tfm_aff, t_new,
                         order, it, entry, tpArgs, saves>>
     ELSE Raise
  /\ UNCHANGED phases

\* t_new = sitk.CompositeTransform([tfm_inv_warp, tfm_aff.GetInverse()])
Compose ==
  /\ pc = "l43"
  /\ IF HasInverse(tfm_aff)
     THEN /\ t_new' = CompositeTransform(tfm_inv_warp, tfm_aff)
          /\ pc' = "l46"
          /\ UNCHANGED <<fs, fs0, in_filename, out_filename, affine_tfm,
                         inv_warp_tfm, surf, loaded, tfm_aff, tfm_inv_warp,
                         order, it, entry, tpArgs, saves>>
     ELSE Raise
  /\ UNCHANGED phases

\* ---------------------------------------------------------- the vertex loop
\* range(len(surf.darrays[0].data))
RangeButLast(n) == [j \in 1..(IF n = 0 THEN 0 ELSE n - 1) |-> j]
Range(n) == [j \in 1..n |-> j]

\* the for loop has consumed every index of its range
ExhaustedEarly(n, ord) == n + 1 >= Len(ord)
Exhausted(n, ord) == n = Len(ord)

\* surf.darrays[0].data[i]; a float32 widens to a double without change
ReadFirstVertex(data, i) == data[1]
ReadNeighbour(data, i) == IF i > 1 THEN data[i - 1] ELSE data[i]
ReadVertex(data, i) == data[i]

\* a tuple of three doubles as a row of the float32 array
Float32Row(v) == <<AsFloat32(v[1]), AsFloat32(v[2]), AsFloat32(v[3])>>

\* surf.darrays[0].data[i] = vtransform
InsertVertex(data, i, v) ==
  SubSeq(data, 1, i - 1) \o <<Float32Row(v)>> \o SubSeq(data, i, Len(data))
StoreVertex(data, i, v) == [data EXCEPT ![i] = Float32Row(v)]

\* one pass of the loop body over index i
Iteration(data, ts, i) ==
  LET row == ReadVertex(data, i)
      vnew == <<row[1], row[2], row[3]>>
  IN  StoreVertex(data, i, TransformPoint(ts, vnew))

\* the whole loop over the indices of ord, as a function of the array
RECURSIVE TransformEachVertex(_, _, _)
TransformEachVertex(data, ts, ord) ==
  IF ord = <<>> THEN data
  ELSE TransformEachVertex(Iteration(data, ts, Head(ord)), ts, Tail(ord))

\* what nib.save(surf, out_filename) puts at the path
SaveFirstArrayOnly(s) == GiftiFile(<<s[1]>>)
SaveContent(s) == GiftiFile(s)

\* for i in range(len(surf.darrays[0].data)): the range is built once
EnterLoop ==
  /\ pc = "l46"
  /\ phases' = Append(phases, "Transform")
  /\ IF surf # <<>>
     THEN /\ order' = Range(Len(surf[1]))
          /\ pc' = "loop"
          /\ UNCHANGED <<fs, fs0, in_filename, out_filename, affine_tfm,
                         inv_warp_tfm, surf, loaded, tfm_aff, tfm_inv_warp,
                         t_new, it, entry, tpArgs, saves>>
     ELSE Raise

\* lines 47-56 for the next index of the range
LoopStep ==
  /\ pc = "loop"
  /\ ~Exhausted(it, order)
  /\ LET i == order[it + 1]
         row == ReadVertex(surf[1], i)
     IN  IF Len(row) = 3
         THEN /\ tpArgs' = Append(tpArgs, <<row[1], row[2], row[3]>>)
              /\ surf' = [surf EXCEPT ![1] = Iteration(surf[1], t_new, i)]
              /\ it' = it + 1
              /\ UNCHANGED <<fs, fs0, pc, in_filename, out_filename,
                             affine_tfm, inv_warp_tfm, loaded, tfm_aff,
                             tfm_inv_warp, t_new, order, entry, saves>>
         ELSE Raise
  /\ UNCHANGED phases

\* nib.save(surf, out_filename), reached when the loop is over
Save ==
  /\ pc = "loop"
  /\ Exhausted(it, order)
  /\ fs' = [fs EXCEPT ![out_filename] = SaveContent(surf)]
  /\ saves' = saves + 1
  /\ phases' = Append(phases, "Save")
  /\ pc' = "done"
  /\ UNCHANGED <<fs0, in_filename, out_filename, affine_tfm, inv_warp_tfm,
                 surf, loaded, tfm_aff, tfm_inv_warp, t_new, order, it,
                 entry, tpArgs>>

Next ==
  \/ Call
  \/ Main
  \/ LoadMesh
  \/ ReadTransform
  \/ ReadImage
  \/ Compose
  \/ EnterLoop
  \/ LoopStep
  \/ Save

Spec == Init /\ [][Next]_vars

\* the program is one sequential thread: a call that can take a step takes it
FairSpec == Spec /\ WF_vars(Next)

\* The same program with the loop visiting the indices in an arbitrary order.
EnterLoopAnyOrder ==
  /\ pc = "l46"
  /\ phases' = Append(phases, "Transform")
  /\ IF surf # <<>>
     THEN /\ order' \in {o \in [1..Len(surf[1]) -> 1..Len(surf[1])] :
                            \A a, b \in 1..Len(surf[1]) : o[a] = o[b] => a = b}
          /\ pc' = "loop"
          /\ UNCHANGED <<fs, fs0, in_filename, out_filename, affine_tfm,
                         inv_warp_tfm, surf, loaded, tfm_aff, tfm_inv_warp,
                         t_new, it, entry, tpArgs, saves>>
     ELSE Raise

NextAnyOrder ==
  \/ Call
  \/ Main
  \/ LoadMesh
  \/ ReadTransform
  \/ ReadImage
  \/ Compose
  \/ EnterLoopAnyOrder
  \/ LoopStep
  \/ Save

SpecAnyOrder == Init /\ [][NextAnyOrder]_vars

\* ------------------------------------------------------------- properties
\* the first data array of the mesh at the output path
Written == fs[out_filename].darrays[1]
\* the number of vertices of the mesh that was loaded
NumVerts == Len(loaded[1])

\* C1 as stated: when the call completes, the written first data array holds
\* at every index exactly the composed transform of the loaded vertex at that
\* index, and the transform was called once per vertex, in index order, on
\* the loaded coordinates.
C1_ExactImage ==
  pc = "done" =>
    /\ Len(Written) = NumVerts
    /\ tpArgs = loaded[1]
    /\ \A i \in 1..NumVerts : Written[i] = TransformPoint(t_new, loaded[1][i])

\* C1 amended: the same, with the transform's double-precision result
\* converted to the float32 element type of the array it is stored in.
C1_Float32Image ==
  pc = "done" =>
    /\ Len(Written) = NumVerts
    /\ tpArgs = loaded[1]
    /\ \A i \in 1..NumVerts :
         Written[i] = Float32Row(TransformPoint(t_new, loaded[1][i]))

C1_Witness ==
  /\ pc = "done"
  /\ NumVerts >= 2
  /\ \E i \in 1..NumVerts :
       /\ Written[i] # loaded[1][i]
       /\ Written[i] # TransformPoint(t_new, loaded[1][i])

\* the composed transform exists from line 43 on
Composed == pc \in {"l46", "loop", "done"}
\* the points the stage order is compared on
Probes == Points \cup ((0 - 1..1) \X (0 - 1..1) \X (0 - 1..1))
WarpFirst(p) == Apply(GetInverse(tfm_aff), Apply(tfm_inv_warp, p))
AffineFirst(p) == Apply(tfm_inv_warp, Apply(GetInverse(tfm_aff), p))

\* C2 as stated: the composed transform maps every point p to
\* affine^-1(warp(p)), the displacement field first and the inverted affine
\* second, and the written vertices are the images under that order.
C2_WarpThenAffine ==
  /\ Composed => \A p \in Probes : TransformPoint(t_new, p) = WarpFirst(p)
  /\ pc = "done" =>
       \A i \in 1..NumVerts : Written[i] = Float32Row(WarpFirst(loaded[1][i]))

\* C2 amended: the composed transform maps every point p to
\* warp(affine^-1(p)), the inverted affine first and the displacement field
\* second, and the written vertices are the images under that order.
C2_AffineThenWarp ==
  /\ Composed => \A p \in Probes : TransformPoint(t_new, p) = AffineFirst(p)
  /\ pc = "done" =>
       \A i \in 1..NumVerts : Written[i] = Float32Row(AffineFirst(loaded[1][i]))

\* a completed run on a pair of stages that do not commute at a vertex
C2_Witness ==
  /\ pc = "done"
  /\ \E i \in 1..NumVerts :
       /\ Float32Row(WarpFirst(loaded[1][i])) # Float32Row(AffineFirst(loaded[1][i]))
       /\ Written[i] = Float32Row(AffineFirst(loaded[1][i]))

\* the inputs of the call make one of its steps fail
InputsBad ==
  \/ fs0[in_filename].kind # "gifti"
  \/ fs0[affine_tfm].kind # "transform"
  \/ fs0[inv_warp_tfm].kind # "image"
  \/ fs0[inv_warp_tfm].pixel # "vector"
  \/ Det(fs0[affine_tfm].transform.matrix) = 0
  \/ fs0[in_filename].darrays = <<>>
  \/ \E j \in 1..Len(fs0[in_filename].darrays[1]) :
       Len(fs0[in_filename].darrays[1][j]) # 3

\* C3: a run that fails (a file missing or malformed, an affine without
\* inverse, a first-array element that is not a 3-component row) ends in the
\* error, never saves, and leaves every file as it was before the call.
C3_NoOutputOnFailure ==
  /\ pc = "raised" => fs = fs0 /\ saves = 0
  /\ (pc # "idle" /\ InputsBad) => pc # "done" /\ fs = fs0 /\ saves = 0

\* a run that failed inside the vertex loop, with an earlier output in place
C3_Witness ==
  /\ pc = "raised"
  /\ phases = <<"Load", "Compose", "Transform">>
  /\ fs[out_filename] = OldOutput

\* the indices the loop has been through
Visited == {order[k] : k \in 1..it}

\* C4: in every state of the loop and after it the first data array has the
\* loaded number of vertices, each index holds either its loaded vertex (not
\* yet visited) or the image of its loaded vertex (visited), and the written
\* array has that number of vertices too.
C4_CountAndOrder ==
  /\ (pc \in {"l39", "l40", "l43", "l46", "loop", "done"} /\ surf # <<>>) =>
       /\ Len(surf[1]) = NumVerts
       /\ \A j \in 1..NumVerts :
            surf[1][j] = IF j \in Visited
                         THEN Float32Row(TransformPoint(t_new, loaded[1][j]))
                         ELSE loaded[1][j]
  /\ pc = "done" => Len(Written) = NumVerts

\* an intermediate state: one vertex rewritten, another still to come
C4_Witness ==
  /\ pc = "loop"
  /\ it = 1
  /\ Len(order) >= 2
  /\ surf[1][1] # loaded[1][1]
  /\ surf[1][2] = loaded[1][2]

\* C5: the data arrays after the first are never changed in memory, and the
\* written mesh has the same number of arrays with the same content in each
\* array after the first.
C5_OtherArraysUntouched ==
  /\ (pc \notin {"idle", "l36"} /\ loaded # <<>>) =>
       /\ Len(surf) = Len(loaded)
       /\ \A k \in 2..Len(loaded) : surf[k] = loaded[k]
  /\ pc = "done" =>
       /\ Len(fs[out_filename].darrays) = Len(loaded)
       /\ \A k \in 2..Len(loaded) : fs[out_filename].darrays[k] = loaded[k]

C5_Witness ==
  /\ pc = "done"
  /\ Len(loaded) >= 3
  /\ Written # loaded[1]

\* the scenario: one vertex at the origin, translation by (1, 2, 3), zero field
C6_Scenario ==
  /\ pc = "done"
  /\ loaded[1] = <<ZeroVec>>
  /\ tfm_aff = Translation123
  /\ tfm_inv_warp = DisplacementFieldTransform(ImageFile("vector", ZeroField))

\* C6: in the scenario the written vertex is (-1, -2, -3).
C6_InverseTranslation ==
  C6_Scenario => Written = <<<<0 - Sub, 0 - 2 * Sub, 0 - 3 * Sub>>>>

C6_Witness == C6_Scenario /\ Len(Written) = 1

\* the composed transform leaves every probe and every loaded vertex in place
IsIdentity ==
  /\ \A p \in Probes : TransformPoint(t_new, p) = p
  /\ \A j \in 1..NumVerts : TransformPoint(t_new, loaded[1][j]) = loaded[1][j]

\* C7: when the composed transform is the identity mapping, the written
\* first data array equals the loaded one.
C7_IdentityRoundTrip ==
  (pc = "done" /\ IsIdentity) => Written = loaded[1]

C7_Witness ==
  /\ pc = "done"
  /\ IsIdentity
  /\ NumVerts >= 2
  /\ loaded[1][1] # loaded[1][2]
  /\ Written = loaded[1]

\* C8: whatever order the loop visits the indices in, the final first data
\* array is the one the ascending loop produces, and each of its vertices is
\* the image of the loaded vertex at the same index.
C8_OrderIndependent ==
  pc = "done" =>
    /\ surf[1] = TransformEachVertex(loaded[1], t_new, Range(NumVerts))
    /\ Written = surf[1]
    /\ \A j \in 1..NumVerts :
         surf[1][j] = Float32Row(TransformPoint(t_new, loaded[1][j]))

\* a completed run that visited the indices in another order than ascending
C8_Witness ==
  /\ pc = "done"
  /\ order # Range(NumVerts)
  /\ surf[1] # loaded[1]

PhaseOrder == <<"Load", "Compose", "Transform", "Save">>

\* C9: the phases are entered in the order Load, Compose, Transform, Save;
\* the save happens at most once, after exactly N iterations, and what it
\* writes is the mesh with every vertex transformed; no other file content
\* is ever written; a call on valid inputs reaches the save.
C9_LinearPhases ==
  /\ [](/\ Len(phases) <= 4
        /\ phases = SubSeq(PhaseOrder, 1, Len(phases))
        /\ saves <= 1
        /\ saves = 1 =>
             /\ pc = "done"
             /\ it = NumVerts
             /\ Len(tpArgs) = NumVerts
             /\ fs[out_filename] = GiftiFile(surf)
             /\ \A j \in 1..NumVerts :
                  Written[j] = Float32Row(TransformPoint(t_new, loaded[1][j]))
        /\ \A p \in Paths : fs[p] # fs0[p] => (saves = 1 /\ p = out_filename))
  /\ ((pc # "idle" /\ ~InputsBad) ~> (pc = "done" /\ saves = 1 /\ it = NumVerts))

C9_Witness ==
  /\ pc = "done"
  /\ saves = 1
  /\ it >= 2
  /\ phases = PhaseOrder

\* C10: in the script's direct invocation every hardcoded path is bound to
\* the parameter of its role: the .gii under ./input is the mesh read, the
\* .mat the affine, the .nii.gz the displacement field, and the .gii under
\* ./output the file written.
C10_MainBindsRoles ==
  entry = "main" =>
    /\ in_filename = InGii
    /\ out_filename = OutGii
    /\ affine_tfm = AffMat
    /\ inv_warp_tfm = WarpNii
====
